---------------------------- MODULE Spec2Model ----------------------------
(***************************************************************************)
(* FindUncommonShares.py: LDAP paged enumeration of the computer objects   *)
(* of a domain, concurrent SMB share listing of every computer found, and  *)
(* export of the aggregated results.                                       *)
(*                                                                         *)
(* Four specifications over one set of variables:                          *)
(*   SpecStype  STYPE_MASK applied to sampled 32-bit share-type values     *)
(*   SpecPaged  get_domain_computers against a paging directory server     *)
(*   Spec       __main__ from the creation of the thread pool to the end   *)
(*              of the script, with one worker() task per computer         *)
(*   SpecFlags  the same on at most one computer, for every combination    *)
(*              of the display and export options                          *)
(*                                                                         *)
(* A 32-bit value v is kept as two 16-bit halves [hi, lo], v = hi*2^16+lo, *)
(* since TLC's integers are signed 32-bit.                               *)
(***************************************************************************)
EXTENDS Integers, Sequences, FiniteSets, TLC

VARIABLES
    \* ---- STYPE_MASK
    stype_value,      \* argument of STYPE_MASK
    stype_flags,      \* its return value, <<>> before the call returns
    stype_pc,         \* "call" | "ret"
    \* ---- get_domain_computers and the directory server it talks to
    ldap_directory,   \* server side: the entries matching the filter, in order
    ldap_page,        \* server side: entries the server puts in one page
    ldap_control,     \* server side: TRUE iff answers carry the paged control
    paged_response,   \* local of get_domain_computers
    paged_cookie,     \* local of get_domain_computers (None or a cookie)
    gdc_results,      \* local "results" of get_domain_computers
    searches,         \* number of ldap_session.search calls made
    gdc_pc,           \* "loop" | "returned"
    \* ---- __main__ and the worker() tasks
    options,          \* the parsed command line
    computers,        \* dNSHostName of each discovered computer, in dict order
    smb_shares,       \* environment: the share table of each computer's SMB server
    main_pc,          \* position of the main thread
    exit_status,      \* -1 while the script runs, then its exit status
    max_workers,      \* size of the ThreadPoolExecutor, 0 before it exists
    submitted,        \* number of tp.submit calls made
    pc,               \* position of each worker task
    how,              \* how each task ended: "-" | "ok" | "noaddr" | "caught" | "raised"
    exc,              \* the statement that raised in each task, "-" if none
    target_ip,        \* local of worker
    resp,             \* local of worker: the answer of listShares
    idx,              \* local of worker: index in resp of the share being handled
    lock,             \* threading.Lock: TRUE iff locked
    holds,            \* tasks that acquired the lock and have not released it
    results,          \* the shared dict, as its items in insertion order
    stdout,           \* the lines the workers have printed so far
    files             \* the export files

stypeVars == <<stype_value, stype_flags, stype_pc>>

gdcVars == <<ldap_directory, ldap_page, ldap_control, paged_response, paged_cookie,
             gdc_results, searches, gdc_pc>>

mainVars == <<options, computers, smb_shares, main_pc, exit_status, max_workers,
              submitted, pc, how, exc, target_ip, resp, idx, lock, holds, results,
              stdout, files>>

vars == <<stypeVars, gdcVars, mainVars>>

Min(a, b) == IF a <= b THEN a ELSE b

(***************************************************************************)
(* Bounds                                                                  *)
(***************************************************************************)
MaxEntries == 4

MaxPageSize == 2

MaxHosts == 2

MaxThreads == 2

MaxShares == 2

(***************************************************************************)
(* STYPE_MASK (lines 42-78)                                                *)
(***************************************************************************)
RECURSIVE BitAnd(_, _)
\* a & b on naturals, bit by bit
BitAnd(a, b) ==
    IF a = 0 \/ b = 0 THEN 0
    ELSE (IF a % 2 = 1 /\ b % 2 = 1 THEN 1 ELSE 0) + 2 * BitAnd(a \div 2, b \div 2)

\* a & b on 32-bit values
And32(a, b) == [hi |-> BitAnd(a.hi, b.hi), lo |-> BitAnd(a.lo, b.lo)]

Word(h, l) == [hi |-> h, lo |-> l]

\* known_flags
STYPE_DISKTREE == Word(0, 0)

STYPE_PRINTQ == Word(0, 1)

STYPE_DEVICE == Word(0, 2)

STYPE_IPC == Word(0, 3)

\* 0x80000000
STYPE_SPECIAL == Word(32768, 0)

\* 0x40000000
STYPE_TEMPORARY == Word(16384, 0)

\* 0b11
LowBitsMask == Word(0, 3)

\* mutant: the type is isolated with 0b1 instead of 0b11
LowBits_OneBit(v) == And32(v, Word(0, 1))

\* stype_value & 0b11
LowBits(v) == And32(v, LowBitsMask)

\* the if/elif chain of lines 66-73
BaseFlag(v) ==
    IF LowBits(v) = STYPE_DISKTREE THEN <<"STYPE_DISKTREE">>
    ELSE IF LowBits(v) = STYPE_PRINTQ THEN <<"STYPE_PRINTQ">>
    ELSE IF LowBits(v) = STYPE_DEVICE THEN <<"STYPE_DEVICE">>
    ELSE IF LowBits(v) = STYPE_IPC THEN <<"STYPE_IPC">>
    ELSE <<>>

STYPE_MASK(v) ==
    BaseFlag(v)
    \o (IF And32(v, STYPE_SPECIAL) = Word(0, 0) THEN <<"STYPE_SPECIAL">> ELSE <<>>)
    \o (IF And32(v, STYPE_TEMPORARY) = Word(0, 0) THEN <<"STYPE_TEMPORARY">> ELSE <<>>)

\* sampled 16-bit halves: every value of bits 31 and 30 and of bits 1 and 0,
\* with the other bits all clear, one set, or all set
HiSamples == { t * 16384 + x : t \in 0..3, x \in {0, 1, 16383} }

LoSamples == { b + y : b \in 0..3, y \in {0, 4, 65532} }

(***************************************************************************)
(* get_domain_computers (lines 81-121)                                     *)
(***************************************************************************)
EntryTypes == {"searchResEntry", "searchResRef"}

\* the i-th object of the directory, of the given response type
Entry(i, ty) ==
    [type |-> ty, dn |-> i,
     attributes |-> [dNSHostName |-> <<"host", i>>, sAMAccountName |-> <<"sam", i>>]]

\* paged_cookie = None of line 94. A cookie is a byte string, kept as a
\* sequence: <<>> is the empty cookie, <<k>> stands for "resume after k entries".
None == <<>>

\* ldap_session.search(..., paged_size, paged_cookie) as the server answers it:
\* the page that starts where the cookie says, and the cookie of the next
\* page, empty when this page is the last. Without the paged control the
\* server sends everything at once.
ServerAnswer(cookie) ==
    LET off == IF Len(cookie) = 0 THEN 0 ELSE cookie[1]
        len == Len(ldap_directory)
        last == Min(off + ldap_page, len)
    IN  IF ldap_control
        THEN [response |-> SubSeq(ldap_directory, off + 1, last),
              controls |-> TRUE,
              cookie   |-> IF last < len THEN <<last>> ELSE <<>>]
        ELSE [response |-> ldap_directory, controls |-> FALSE, cookie |-> <<>>]

\* lines 101-112: <<paged_response, paged_cookie>> after one answer
ThreadCookie(old_cookie, answer) ==
    IF answer.controls
    THEN IF Len(answer.cookie) = 0
         THEN <<FALSE, old_cookie>>
         ELSE <<TRUE, answer.cookie>>
    ELSE <<FALSE, old_cookie>>

RECURSIVE CollectFrom(_, _, _)
CollectFrom(res, response, i) ==
    IF i > Len(response) THEN res
    ELSE IF response[i].type # "searchResEntry"
         THEN CollectFrom(res, response, i + 1)
         ELSE CollectFrom(
                [d \in (DOMAIN res) \cup {response[i].dn} |->
                    IF d = response[i].dn THEN response[i].attributes ELSE res[d]],
                response, i + 1)

\* mutant: the map is rebuilt from each response instead of being added to
CollectEntries_Reset(res, response) == CollectFrom(<<>>, response, 1)

\* lines 114-120: results after the for loop over ldap_session.response
CollectEntries(res, response) == CollectFrom(res, response, 1)

\* one iteration of the while loop of lines 95-120
SearchPage ==
    /\ gdc_pc = "loop"
    /\ paged_response = TRUE
    /\ LET answer == ServerAnswer(paged_cookie)
           next == ThreadCookie(paged_cookie, answer)
       IN  /\ paged_response' = next[1]
           /\ paged_cookie' = next[2]
           /\ gdc_results' = CollectEntries(gdc_results, answer.response)
    /\ searches' = searches + 1
    /\ UNCHANGED <<gdc_pc, ldap_directory, ldap_page, ldap_control>>
    /\ UNCHANGED <<stypeVars, mainVars>>

\* line 121
ReturnComputers ==
    /\ gdc_pc = "loop"
    /\ paged_response = FALSE
    /\ gdc_pc' = "returned"
    /\ UNCHANGED <<paged_response, paged_cookie, gdc_results, searches,
                   ldap_directory, ldap_page, ldap_control>>
    /\ UNCHANGED <<stypeVars, mainVars>>

(***************************************************************************)
(* Shares, records and printed lines (lines 33-39, 425-499)                *)
(***************************************************************************)
\* Strings that the code slices or tests by character are kept as sequences
\* of characters; NUL is the terminator impacket leaves at the end of
\* shi1_netname and shi1_remark.
NUL == "\\0"

COMMON_SHARES ==
    { <<"C", "$">>,
      <<"A", "D", "M", "I", "N", "$">>, <<"I", "P", "C", "$">>,
      <<"P", "R", "I", "N", "T", "$">>, <<"p", "r", "i", "n", "t", "$">>,
      <<"f", "a", "x", "$">>, <<"F", "A", "X", "$">>,
      <<"S", "Y", "S", "V", "O", "L">>, <<"N", "E", "T", "L", "O", "G", "O", "N">> }

\* a SHARE_INFO_1 entry as listShares returns it
ShareInfo(name, remark, type) ==
    [shi1_netname |-> name \o <<NUL>>, shi1_remark |-> remark \o <<NUL>>,
     shi1_type |-> type]

\* the shares a server may expose: uncommon and common, hidden and visible,
\* with and without a comment
ShareCatalogue ==
    << ShareInfo(<<"d", "a", "t", "a">>, <<>>, Word(0, 0)),
       ShareInfo(<<"C", "$">>, <<"D", "e", "f">>, Word(32768, 0)),
       ShareInfo(<<"a", "d", "m", "$">>, <<"o", "p", "s">>, Word(32768, 0)),
       ShareInfo(<<"S", "Y", "S", "V", "O", "L">>, <<"L", "o", "g">>, Word(0, 0)),
       ShareInfo(<<"p", "r", "i", "v", "$">>, <<>>, Word(16384, 1)),
       ShareInfo(<<"I", "P", "C", "$">>, <<>>, Word(32768, 3)) >>

\* n consecutive shares of the catalogue, starting after the first off ones
ShareTable(off, n) ==
    [j \in 1..n |-> ShareCatalogue[((off + j - 1) % Len(ShareCatalogue)) + 1]]

\* s[:-1]
StripLast(s) == SubSeq(s, 1, Len(s) - 1)

\* s.endswith(c)
EndsWith(s, c) == Len(s) > 0 /\ s[Len(s)] = c

\* the address nslookup answers for a name (answer[0])
IpOf(name) == <<"ip", name>>

\* line 428
ShareName(share) == StripLast(share.shi1_netname)

\* line 429
ShareComment(share) == StripLast(share.shi1_remark)

\* the dict of lines 436-451
NewRecord(name, ip, share) ==
    [computer |-> [fqdn |-> name, ip |-> ip],
     share |-> [name    |-> ShareName(share),
                comment |-> ShareComment(share),
                hidden  |-> EndsWith(ShareName(share), "$"),
                uncpath |-> <<"", "", ip, ShareName(share), "">>,
                type    |-> [stype_value |-> share.shi1_type,
                             stype_flags |-> STYPE_MASK(share.shi1_type)]]]

\* results.keys()
Keys(r) == { r[i].key : i \in DOMAIN r }

\* results[k]
Get(r, k) == (CHOOSE i \in DOMAIN r : r[i].key = k)

\* mutant: the key test of line 433 is missing, every record gets a new item
AppendRecord_NewKeyEachTime(r, name, rec) ==
    Append(r, [key |-> name, value |-> <<rec>>])

\* mutant: the record is inserted at the head of the list of the host
AppendRecord_Prepend(r, name, rec) ==
    LET r1 == IF name \notin Keys(r) THEN Append(r, [key |-> name, value |-> <<>>]) ELSE r
    IN  [r1 EXCEPT ![Get(r1, name)].value = <<rec>> \o @]

\* mutant: shares of the allow-list are not recorded
AppendRecord_SkipCommon(r, name, rec) ==
    IF rec.share.name \in COMMON_SHARES THEN r
    ELSE LET r1 == IF name \notin Keys(r) THEN Append(r, [key |-> name, value |-> <<>>]) ELSE r
         IN  [r1 EXCEPT ![Get(r1, name)].value = Append(@, rec)]

\* lines 433-452: create the list of the host if it has none, then append
AppendRecord(r, name, rec) ==
    LET r1 == IF name \notin Keys(r) THEN Append(r, [key |-> name, value |-> <<>>]) ELSE r
    IN  [r1 EXCEPT ![Get(r1, name)].value = Append(@, rec)]

Line(text, color, name, address, comment) ==
    [text |-> text, color |-> color, name |-> name, address |-> address,
     comment |-> comment]

\* lines 455-499: the lines one share makes the worker print (none or one).
\* color is the escape code around the share name: 94 hidden, 93 visible.
ShareLines(o, sharename, sharecomment, address) ==
    LET hid == EndsWith(sharename, "$")
        remark == IF Len(sharecomment) # 0 THEN <<sharecomment>> ELSE <<>>
        found(c) == {Line("Found", c, sharename, address, remark)}
        skip(c) == {Line("Skipping common share", c, sharename, address, remark)}
    IN  IF sharename \notin COMMON_SHARES
        THEN IF ~o.quiet
             THEN IF Len(sharecomment) # 0
                  THEN IF o.colors
                       THEN IF hid
                            THEN (IF ~o.ignore_hidden_shares THEN found("94") ELSE {})
                            ELSE found("93")
                       ELSE found("none")
                  ELSE IF o.colors
                       THEN IF hid
                            THEN (IF ~o.ignore_hidden_shares THEN found("94") ELSE {})
                            ELSE found("93")
                       ELSE IF hid
                            THEN (IF ~o.ignore_hidden_shares THEN found("none") ELSE {})
                            ELSE found("none")
             ELSE {}
        ELSE IF o.debug /\ ~o.quiet
             THEN IF Len(sharecomment) # 0
                  THEN IF o.colors
                       THEN (IF hid /\ ~o.ignore_hidden_shares THEN skip("94") ELSE skip("93"))
                       ELSE skip("none")
                  ELSE IF o.colors
                       THEN (IF hid /\ ~o.ignore_hidden_shares THEN skip("94") ELSE skip("93"))
                       ELSE IF hid
                            THEN (IF ~o.ignore_hidden_shares THEN skip("none") ELSE {})
                            ELSE skip("none")
             ELSE {}

(***************************************************************************)
(* __main__ : the thread pool (lines 535-543)                              *)
(***************************************************************************)
Tasks == 1..Len(computers)

\* tasks between the start of worker() and its return
InProgress == { t \in Tasks : pc[t] \notin {"new", "queued", "done"} }

\* mutant: the larger of the two sizes the pool
PoolSize_Max(threads, n) == IF threads >= n THEN threads ELSE n

\* line 540: max_workers=min(options.threads, len(computers.keys()))
PoolSize(threads, n) == Min(threads, n)

\* line 540, when ThreadPoolExecutor accepts max_workers
CreatePool ==
    /\ main_pc = "pool"
    /\ PoolSize(options.threads, Len(computers)) > 0
    /\ max_workers' = PoolSize(options.threads, Len(computers))
    /\ main_pc' = "submit"
    /\ UNCHANGED <<options, computers, smb_shares, exit_status, submitted, pc, how, exc,
                   target_ip, resp, idx, lock, holds, results, stdout, files>>
    /\ UNCHANGED <<stypeVars, gdcVars>>

\* line 540, when it raises ValueError("max_workers must be greater than 0"):
\* the exception is not caught and the interpreter exits with status 1
CreatePoolFails ==
    /\ main_pc = "pool"
    /\ PoolSize(options.threads, Len(computers)) <= 0
    /\ main_pc' = "crash"
    /\ exit_status' = 1
    /\ UNCHANGED <<options, computers, smb_shares, max_workers, submitted, pc, how, exc,
                   target_ip, resp, idx, lock, holds, results, stdout, files>>
    /\ UNCHANGED <<stypeVars, gdcVars>>

\* lines 541-543: one tp.submit per computer
Submit ==
    /\ main_pc = "submit"
    /\ submitted < Len(computers)
    /\ submitted' = submitted + 1
    /\ pc' = [pc EXCEPT ![submitted + 1] = "queued"]
    /\ UNCHANGED <<options, computers, smb_shares, main_pc, exit_status, max_workers,
                   how, exc, target_ip, resp, idx, lock, holds, results, stdout, files>>
    /\ UNCHANGED <<stypeVars, gdcVars>>

\* a pool thread takes the oldest queued task; the pool has max_workers threads
Start(t) ==
    /\ pc[t] = "queued"
    /\ \A u \in Tasks : u < t => pc[u] # "queued"
    /\ Cardinality(InProgress) < max_workers
    /\ pc' = [pc EXCEPT ![t] = "resolve"]
    /\ UNCHANGED <<options, computers, smb_shares, main_pc, exit_status, max_workers,
                   submitted, how, exc, target_ip, resp, idx, lock, holds, results,
                   stdout, files>>
    /\ UNCHANGED <<stypeVars, gdcVars>>

\* mutant: the with block is left without waiting for the tasks
AllTasksDone_NoWait == TRUE

\* what the exit of the with block (shutdown(wait=True)) waits for
AllTasksDone == \A t \in Tasks : pc[t] = "done"

\* line 540-543: the end of the with block
Join ==
    /\ main_pc = "submit"
    /\ submitted = Len(computers)
    /\ AllTasksDone
    /\ main_pc' = "json"
    /\ UNCHANGED <<options, computers, smb_shares, exit_status, max_workers, submitted,
                   pc, how, exc, target_ip, resp, idx, lock, holds, results, stdout, files>>
    /\ UNCHANGED <<stypeVars, gdcVars>>

(***************************************************************************)
(* worker (lines 418-503)                                                  *)
(***************************************************************************)
\* lines 501-503: the except branch; the task then returns
Except(t, e) ==
    /\ pc' = [pc EXCEPT ![t] = "done"]
    /\ how' = [how EXCEPT ![t] = "caught"]
    /\ exc' = [exc EXCEPT ![t] = e]
    /\ stdout' = IF options.debug
                 THEN stdout \cup {Line("exception", "none", <<>>, computers[t], <<>>)}
                 ELSE stdout

\* line 419-421: the lookup answers, answers nothing, or raises (outside the try)
Resolve(t) ==
    /\ pc[t] = "resolve"
    /\ \E answer \in {"address", "nothing", "raises"} :
         CASE answer = "address" ->
                /\ target_ip' = [target_ip EXCEPT ![t] = IpOf(computers[t])]
                /\ pc' = [pc EXCEPT ![t] = "login"]
                /\ UNCHANGED <<how, exc>>
           [] answer = "nothing" ->
                /\ pc' = [pc EXCEPT ![t] = "done"]
                /\ how' = [how EXCEPT ![t] = "noaddr"]
                /\ UNCHANGED <<target_ip, exc>>
           [] answer = "raises" ->
                /\ pc' = [pc EXCEPT ![t] = "done"]
                /\ how' = [how EXCEPT ![t] = "raised"]
                /\ exc' = [exc EXCEPT ![t] = "dns"]
                /\ UNCHANGED target_ip
    /\ UNCHANGED <<options, computers, smb_shares, main_pc, exit_status, max_workers,
                   submitted, resp, idx, lock, holds, results, stdout, files>>
    /\ UNCHANGED <<stypeVars, gdcVars>>

\* line 423: init_smb_session returns a session or raises
\* lines 390-415: what a call of init_smb_session comes to, on a server that
\* accepts or refuses the login. With use_kerberos the arguments of
\* kerberosLogin are evaluated first (line 406) and options.aesKey is read:
\* reading an attribute the namespace lacks raises AttributeError and the
\* login call is not made.
init_smb_session(o, accepted) ==
    IF o.use_kerberos = TRUE
    THEN IF "aesKey" \notin DOMAIN o
         THEN "AttributeError"
         ELSE IF accepted THEN "session" ELSE "refused"
    ELSE IF accepted THEN "session" ELSE "refused"

Login(t) ==
    /\ pc[t] = "login"
    /\ \E accepted \in BOOLEAN :
         LET smbClient == init_smb_session(options, accepted)
         IN  IF smbClient = "session"
             THEN /\ pc' = [pc EXCEPT ![t] = "list"]
                  /\ UNCHANGED <<how, exc, stdout>>
             ELSE Except(t, IF smbClient = "refused" THEN "login" ELSE smbClient)
    /\ UNCHANGED <<options, computers, smb_shares, main_pc, exit_status, max_workers,
                   submitted, target_ip, resp, idx, lock, holds, results, files>>
    /\ UNCHANGED <<stypeVars, gdcVars>>

\* line 424-425: listShares returns the share table or raises; the for loop
\* starts, and ends at once on an empty answer
ListShares(t) ==
    /\ pc[t] = "list"
    /\ \E answered \in BOOLEAN :
         IF answered
         THEN /\ resp' = [resp EXCEPT ![t] = smb_shares[t]]
              /\ idx' = [idx EXCEPT ![t] = 1]
              /\ IF Len(smb_shares[t]) = 0
                 THEN /\ pc' = [pc EXCEPT ![t] = "done"]
                      /\ how' = [how EXCEPT ![t] = "ok"]
                 ELSE /\ pc' = [pc EXCEPT ![t] = "acquire"]
                      /\ UNCHANGED how
              /\ UNCHANGED <<exc, stdout>>
         ELSE /\ Except(t, "list")
              /\ UNCHANGED <<resp, idx>>
    /\ UNCHANGED <<options, computers, smb_shares, main_pc, exit_status, max_workers,
                   submitted, target_ip, lock, holds, results, files>>
    /\ UNCHANGED <<stypeVars, gdcVars>>

\* mutant: acquire does not wait for the lock to be free
CanAcquire_NoWait == TRUE

\* lock.acquire() returns only when the lock is free
CanAcquire == ~lock

\* line 432
Acquire(t) ==
    /\ pc[t] = "acquire"
    /\ CanAcquire
    /\ lock' = TRUE
    /\ holds' = holds \cup {t}
    /\ pc' = [pc EXCEPT ![t] = "cs"]
    /\ UNCHANGED <<options, computers, smb_shares, main_pc, exit_status, max_workers,
                   submitted, how, exc, target_ip, resp, idx, results, stdout, files>>
    /\ UNCHANGED <<stypeVars, gdcVars>>

\* lines 433-453: the record is appended and the lock released
Record(t) ==
    /\ pc[t] = "cs"
    /\ results' = AppendRecord(results, computers[t],
                               NewRecord(computers[t], target_ip[t], resp[t][idx[t]]))
    /\ lock' = FALSE
    /\ holds' = holds \ {t}
    /\ pc' = [pc EXCEPT ![t] = "print"]
    /\ UNCHANGED <<options, computers, smb_shares, main_pc, exit_status, max_workers,
                   submitted, how, exc, target_ip, resp, idx, stdout, files>>
    /\ UNCHANGED <<stypeVars, gdcVars>>

\* lines 433-452 raise (building the record, growing the dict or the list):
\* control goes to the except branch of line 501, past lock.release()
RecordRaises(t) ==
    /\ pc[t] = "cs"
    /\ Except(t, "record")
    /\ UNCHANGED <<options, computers, smb_shares, main_pc, exit_status, max_workers,
                   submitted, target_ip, resp, idx, lock, holds, results, files>>
    /\ UNCHANGED <<stypeVars, gdcVars>>

\* the for loop of line 425 goes on with the next share or ends
NextShare(t) ==
    IF idx[t] < Len(resp[t])
    THEN /\ idx' = [idx EXCEPT ![t] = idx[t] + 1]
         /\ pc' = [pc EXCEPT ![t] = "acquire"]
         /\ UNCHANGED how
    ELSE /\ pc' = [pc EXCEPT ![t] = "done"]
         /\ how' = [how EXCEPT ![t] = "ok"]
         /\ UNCHANGED idx

\* lines 455-499
Display(t) ==
    /\ pc[t] = "print"
    /\ stdout' = stdout \cup ShareLines(options, ShareName(resp[t][idx[t]]),
                                        ShareComment(resp[t][idx[t]]), computers[t])
    /\ NextShare(t)
    /\ UNCHANGED <<options, computers, smb_shares, main_pc, exit_status, max_workers,
                   submitted, exc, target_ip, resp, lock, holds, results, files>>
    /\ UNCHANGED <<stypeVars, gdcVars>>

\* lines 455-499, when the print call raises (stdout closed or unable to
\* encode the name): the except branch of line 501
DisplayRaises(t) ==
    /\ pc[t] = "print"
    /\ ShareLines(options, ShareName(resp[t][idx[t]]),
                  ShareComment(resp[t][idx[t]]), computers[t]) # {}
    /\ Except(t, "print")
    /\ UNCHANGED <<options, computers, smb_shares, main_pc, exit_status, max_workers,
                   submitted, target_ip, resp, idx, lock, holds, results, files>>
    /\ UNCHANGED <<stypeVars, gdcVars>>

(***************************************************************************)
(* __main__ : the exports (lines 545-620)                                  *)
(***************************************************************************)
RECURSIVE Flatten(_, _)
\* the records of results in iteration order: for each key, for each share
Flatten(r, i) ==
    IF i > Len(r) THEN <<>> ELSE r[i].value \o Flatten(r, i + 1)

\* json.dumps of a bool
JsonBool(b) == IF b THEN "true" ELSE "false"

\* json.dumps of one record: the same nesting, booleans as JSON literals
JsonRecord(rec) ==
    [computer |-> rec.computer,
     share |-> [rec.share EXCEPT !.hidden = JsonBool(rec.share.hidden)]]

\* line 557: json.dumps(results): an object with one array per key
JsonDump(r) ==
    [i \in DOMAIN r |->
        [key |-> r[i].key,
         value |-> [j \in DOMAIN r[i].value |-> JsonRecord(r[i].value[j])]]]

\* line 576
header_fields ==
    <<"Computer FQDN", "Computer IP", "Share name", "Share comment", "Is hidden">>

\* line 586
XlsxRow(rec) ==
    <<rec.computer.fqdn, rec.computer.ip, rec.share.name, rec.share.comment,
      rec.share.hidden>>

\* lines 610-616
SqliteRow(rec) ==
    <<rec.computer.fqdn, rec.computer.ip, rec.share.name, rec.share.comment,
      rec.share.type.stype_value>>

\* the rows a table "shares" may hold before the run
OldRow == <<<<"host", 0>>, <<"ip", <<"host", 0>>>>, <<"o", "l", "d">>, <<>>, Word(0, 0)>>

PreexistingTables == { <<>>, <<OldRow>> }

\* lines 545-559
ExportJson ==
    /\ main_pc = "json"
    /\ files' = IF options.export_json
                THEN [files EXCEPT !.json = [written |-> TRUE, data |-> JsonDump(results)]]
                ELSE files
    /\ main_pc' = "xlsx"
    /\ UNCHANGED <<options, computers, smb_shares, exit_status, max_workers, submitted,
                   pc, how, exc, target_ip, resp, idx, lock, holds, results, stdout>>
    /\ UNCHANGED <<stypeVars, gdcVars>>

\* lines 561-591: the worksheet as a map from row number to row, and the
\* arguments of worksheet.autofilter
ExportXlsx ==
    /\ main_pc = "xlsx"
    /\ files' = IF options.export_xlsx
                THEN LET data == Flatten(results, 1)
                         row_id == 1 + Len(data)
                     IN  [files EXCEPT !.xlsx =
                            [written |-> TRUE,
                             rows |-> [k \in 0..Len(data) |->
                                         IF k = 0 THEN header_fields ELSE XlsxRow(data[k])],
                             autofilter |-> <<0, 0, row_id, Len(header_fields) - 1>>]]
                ELSE files
    /\ main_pc' = "sqlite"
    /\ UNCHANGED <<options, computers, smb_shares, exit_status, max_workers, submitted,
                   pc, how, exc, target_ip, resp, idx, lock, holds, results, stdout>>
    /\ UNCHANGED <<stypeVars, gdcVars>>

\* mutant: the table is created anew, what it held is lost
InsertRows_Replace(old, new) == new

\* lines 607-618: CREATE TABLE IF NOT EXISTS keeps the rows of an existing
\* table and every INSERT adds one row after them
InsertRows(old, new) == old \o new

\* lines 593-620, then the end of the script: the table holds what it held
\* before the run, if the file existed, and one more row per record
ExportSqlite ==
    /\ main_pc = "sqlite"
    /\ \E old \in PreexistingTables :
         files' = IF options.export_sqlite
                  THEN LET data == Flatten(results, 1)
                       IN  [files EXCEPT !.sqlite =
                              [written |-> TRUE, before |-> old,
                               rows |-> InsertRows(old,
                                           [k \in 1..Len(data) |-> SqliteRow(data[k])])]]
                  ELSE files
    /\ main_pc' = "exit"
    /\ exit_status' = 0
    /\ UNCHANGED <<options, computers, smb_shares, max_workers, submitted,
                   pc, how, exc, target_ip, resp, idx, lock, holds, results, stdout>>
    /\ UNCHANGED <<stypeVars, gdcVars>>

(***************************************************************************)
(* Specifications                                                          *)
(***************************************************************************)
\* lines 124-163: the attributes argparse gives the options namespace that
\* the model reads. Without -k, -H and --aes-key: use_kerberos is False,
\* auth_hashes and auth_key are None. There is no attribute aesKey: the
\* destination of --aes-key is auth_key (line 150).
Options(th, q, d, c, ih, ej, ex, es) ==
    [threads |-> th, quiet |-> q, debug |-> d, colors |-> c,
     ignore_hidden_shares |-> ih, export_json |-> ej, export_xlsx |-> ex,
     export_sqlite |-> es,
     use_kerberos |-> FALSE, auth_hashes |-> None, auth_key |-> None]

\* lines 146-151: the ways to authenticate the command line accepts:
\* password, NT/LM hashes, Kerberos with the ticket cache, Kerberos with an
\* AES key
AuthModes ==
    { [use_kerberos |-> FALSE, auth_hashes |-> None, auth_key |-> None],
      [use_kerberos |-> FALSE, auth_hashes |-> <<"nthash">>, auth_key |-> None],
      [use_kerberos |-> TRUE, auth_hashes |-> None, auth_key |-> None],
      [use_kerberos |-> TRUE, auth_hashes |-> None, auth_key |-> <<"hexkey">>] }

\* the options of a run authenticated in mode a
WithAuth(o, a) ==
    [o EXCEPT !.use_kerberos = a.use_kerberos, !.auth_hashes = a.auth_hashes,
              !.auth_key = a.auth_key]

\* the dNSHostName of the i-th computer object
HostName(i) == <<"host", i>>

NoFiles ==
    [json |-> [written |-> FALSE], xlsx |-> [written |-> FALSE],
     sqlite |-> [written |-> FALSE]]

\* STYPE_MASK is not being called
StypeOff ==
    /\ stype_value = Word(0, 0)
    /\ stype_flags = <<>>
    /\ stype_pc = "off"

\* get_domain_computers is not being called
GdcOff ==
    /\ ldap_directory = <<>>
    /\ ldap_page = 1
    /\ ldap_control = TRUE
    /\ paged_response = TRUE
    /\ paged_cookie = None
    /\ gdc_results = <<>>
    /\ searches = 0
    /\ gdc_pc = "off"

\* line 535-538, for k computers found
MainStart(k) ==
    /\ computers = [i \in 1..k |-> HostName(i)]
    /\ main_pc = "pool"
    /\ exit_status = -1
    /\ max_workers = 0
    /\ submitted = 0
    /\ pc = [t \in 1..k |-> "new"]
    /\ how = [t \in 1..k |-> "-"]
    /\ exc = [t \in 1..k |-> "-"]
    /\ target_ip = [t \in 1..k |-> <<>>]
    /\ resp = [t \in 1..k |-> <<>>]
    /\ idx = [t \in 1..k |-> 0]
    /\ lock = FALSE
    /\ holds = {}
    /\ results = <<>>
    /\ stdout = {}
    /\ files = NoFiles

\* __main__ is not running
MainOff ==
    /\ options = Options(1, FALSE, FALSE, TRUE, FALSE, FALSE, FALSE, FALSE)
    /\ smb_shares = <<>>
    /\ MainStart(0)

\* the script run with the default display flags, any thread count and all
\* three exports, on a domain of up to MaxHosts computers with distinct
\* dNSHostName that expose up to MaxShares shares each
Init ==
    /\ StypeOff
    /\ GdcOff
    /\ \E th \in 0..MaxThreads :
         options = Options(th, FALSE, FALSE, TRUE, FALSE, TRUE, TRUE, TRUE)
    /\ \E k \in 0..MaxHosts :
         /\ \E n \in [1..k -> 0..MaxShares] :
              smb_shares = [t \in 1..k |-> ShareTable(t - 1, n[t])]
         /\ MainStart(k)

Next ==
    \/ CreatePool
    \/ CreatePoolFails
    \/ Submit
    \/ Join
    \/ ExportJson
    \/ ExportXlsx
    \/ ExportSqlite
    \/ \E t \in Tasks : Start(t)
    \/ \E t \in Tasks : Resolve(t)
    \/ \E t \in Tasks : Login(t)
    \/ \E t \in Tasks : ListShares(t)
    \/ \E t \in Tasks : Acquire(t)
    \/ \E t \in Tasks : Record(t)
    \/ \E t \in Tasks : RecordRaises(t)
    \/ \E t \in Tasks : Display(t)
    \/ \E t \in Tasks : DisplayRaises(t)

Spec == Init /\ [][Next]_vars

\* the script run on at most one computer, with every combination of the
\* display flags and of the exports, and every stretch of the share catalogue
InitFlags ==
    /\ StypeOff
    /\ GdcOff
    /\ \E th \in 0..1, q \in BOOLEAN, d \in BOOLEAN, c \in BOOLEAN, ih \in BOOLEAN,
          ej \in BOOLEAN, ex \in BOOLEAN, es \in BOOLEAN :
         options = Options(th, q, d, c, ih, ej, ex, es)
    /\ \E k \in 0..1 :
         /\ \E off \in 0..(Len(ShareCatalogue) - 1), n \in 0..MaxShares :
              smb_shares = [t \in 1..k |-> ShareTable(off, n)]
         /\ MainStart(k)

SpecFlags == InitFlags /\ [][Next]_vars

\* the script run on at most one computer that exposes any stretch of the
\* share catalogue, with the default display flags and all three exports, in
\* every way to authenticate
InitAuth ==
    /\ StypeOff
    /\ GdcOff
    /\ \E th \in 0..1, a \in AuthModes :
         options = WithAuth(Options(th, FALSE, FALSE, TRUE, FALSE, TRUE, TRUE, TRUE), a)
    /\ \E k \in 0..1 :
         /\ \E off \in 0..(Len(ShareCatalogue) - 1), n \in 0..MaxShares :
              smb_shares = [t \in 1..k |-> ShareTable(off, n)]
         /\ MainStart(k)

SpecAuth == InitAuth /\ [][Next]_vars

\* STYPE_MASK called on a sampled value
InitStype ==
    /\ stype_value \in { Word(h, l) : h \in HiSamples, l \in LoSamples }
    /\ stype_flags = <<>>
    /\ stype_pc = "call"
    /\ GdcOff
    /\ MainOff

CallStypeMask ==
    /\ stype_pc = "call"
    /\ stype_flags' = STYPE_MASK(stype_value)
    /\ stype_pc' = "ret"
    /\ UNCHANGED <<stype_value, gdcVars, mainVars>>

NextStype == CallStypeMask

SpecStype == InitStype /\ [][NextStype]_vars

\* get_domain_computers called against a directory of up to MaxEntries
\* objects, served in pages of up to MaxPageSize
InitPaged ==
    /\ \E len \in 0..MaxEntries :
         \E ty \in [1..len -> EntryTypes] :
            ldap_directory = [i \in 1..len |-> Entry(i, ty[i])]
    /\ ldap_page \in 1..MaxPageSize
    /\ ldap_control \in BOOLEAN
    /\ paged_response = TRUE
    /\ paged_cookie = None
    /\ gdc_results = <<>>
    /\ searches = 0
    /\ gdc_pc = "loop"
    /\ StypeOff
    /\ MainOff

NextPaged == SearchPage \/ ReturnComputers

SpecPaged == InitPaged /\ [][NextPaged]_vars

(***************************************************************************)
(* Properties                                                              *)
(***************************************************************************)
\* the number of pages the server cuts the directory into
NumPages ==
    IF Len(ldap_directory) = 0 THEN 1
    ELSE (Len(ldap_directory) + ldap_page - 1) \div ldap_page

\* the distinguished names of the searchResEntry entries of the directory
EntryDns ==
    { ldap_directory[i].dn : i \in { j \in DOMAIN ldap_directory :
                                       ldap_directory[j].type = "searchResEntry" } }

\* C3: against a server that pages its answer (N pages, the cookie empty on
\* the last one only), each search after the first carries the cookie of the
\* previous answer, the loop ends after exactly N searches, and the map
\* returned holds every searchResEntry of every page, once, under its dn,
\* and nothing else.
C3_PagedSearchComplete ==
    (gdc_pc \in {"loop", "returned"} /\ ldap_control) =>
        /\ searches <= NumPages
        /\ (paged_response /\ searches > 0) => paged_cookie = <<searches * ldap_page>>
        /\ (~paged_response) =>
              /\ searches = NumPages
              /\ DOMAIN gdc_results = EntryDns
              /\ \A i \in DOMAIN ldap_directory :
                    ldap_directory[i].dn \in EntryDns =>
                        gdc_results[ldap_directory[i].dn] = ldap_directory[i].attributes

\* C3 witness: the function returned after two searches, with an entry of the
\* first page and an entry of the last page in the map, and a referral skipped
C3_Witness ==
    /\ gdc_pc = "returned"
    /\ ldap_control
    /\ searches = 2
    /\ Len(ldap_directory) >= 3
    /\ 1 \in DOMAIN gdc_results
    /\ Len(ldap_directory) \in DOMAIN gdc_results
    /\ Cardinality(DOMAIN gdc_results) < Len(ldap_directory)

AfterProbing == {"json", "xlsx", "sqlite", "exit"}

\* the number of shares of its answer that task t has appended to results,
\* read off the position of the task
Recorded(t) ==
    CASE pc[t] \in {"new", "queued", "resolve", "login", "list"} -> 0
      [] pc[t] \in {"acquire", "cs"} -> idx[t] - 1
      [] pc[t] = "print" -> idx[t]
      [] pc[t] = "done" ->
            IF how[t] = "ok" THEN Len(resp[t])
            ELSE IF exc[t] = "record" THEN idx[t] - 1
            ELSE IF exc[t] = "print" THEN idx[t]
            ELSE 0

RECURSIVE TotalRecorded(_)
\* the number of shares tasks 1..n have appended to results
TotalRecorded(n) == IF n = 0 THEN 0 ELSE Recorded(n) + TotalRecorded(n - 1)

\* the share names of the first n shares of the table of task t's server
ServedNames(t, n) == [j \in 1..n |-> StripLast(smb_shares[t][j].shi1_netname)]

\* the share names recorded under key k, in list order
RecordedNames(k) ==
    LET v == results[Get(results, k)].value
    IN  [j \in 1..Len(v) |-> v[j].share.name]

\* C1: failures are isolated. Whatever host fails and wherever in worker(),
\* no other task is stopped or blocked by it (no task waits for a lock that
\* a finished task left locked, so every task can go on to its end), and
\* every host whose probe did not fail has all its shares in results.
C1_FailureIsolation ==
    \A t \in Tasks :
        /\ pc[t] = "acquire" => ~(lock /\ \E u \in holds : pc[u] = "done")
        /\ how[t] = "ok" /\ Len(resp[t]) > 0 =>
              /\ computers[t] \in Keys(results)
              /\ Len(results[Get(results, computers[t])].value) = Len(resp[t])

\* C2 as stated: once probing has ended, a host has a key in results iff its
\* probe succeeded.
C2_KeyIffSucceeded ==
    main_pc \in AfterProbing =>
        \A t \in Tasks : (computers[t] \in Keys(results)) <=> (how[t] = "ok")

\* C2 amended: once probing has ended, results has at most one item per
\* host, none of them empty; a host has a key iff at least one of its shares
\* was recorded: every host whose probe succeeded on a non-empty share list
\* has one, a host that succeeded on an empty share list has none, and a
\* host whose probe failed before its first append (resolution, login,
\* listShares) has none.
C2_KeyIffRecorded ==
    main_pc \in AfterProbing =>
        /\ \A i, j \in DOMAIN results : results[i].key = results[j].key => i = j
        /\ \A i \in DOMAIN results : Len(results[i].value) > 0
        /\ \A t \in Tasks :
              /\ (computers[t] \in Keys(results)) <=> (Recorded(t) >= 1)
              /\ how[t] = "ok" =>
                    ((computers[t] \in Keys(results)) <=> (Len(smb_shares[t]) > 0))
              /\ (how[t] = "noaddr" \/ exc[t] \in {"dns", "login", "list"}) =>
                    computers[t] \notin Keys(results)

\* C2 witness: probing over, one host succeeded and has its key, another
\* failed at login and has none
C2_Witness ==
    /\ main_pc = "exit"
    /\ \E t, u \in Tasks :
          /\ how[t] = "ok" /\ computers[t] \in Keys(results)
          /\ exc[u] = "login" /\ computers[u] \notin Keys(results)

\* C5: with a thread count of at least one, the script never ends otherwise
\* than by reaching its last line with exit status 0, whatever the number of
\* computers found and whatever probes fail.
C5_ExitsZero ==
    options.threads >= 1 => (main_pc # "crash" /\ exit_status \in {-1, 0})

\* C6: one task per computer, a pool of min(threads, computers) slots, and
\* never more probes in progress than that.
C6_PoolBound ==
    /\ submitted <= Len(computers)
    /\ \A t \in Tasks : (pc[t] # "new") <=> (t <= submitted)
    /\ main_pc \in AfterProbing => submitted = Len(computers)
    /\ main_pc \in {"submit"} \cup AfterProbing =>
          max_workers = Min(options.threads, Len(computers))
    /\ Cardinality(InProgress) <= Min(options.threads, Len(computers))

\* C6 witness: every slot of a pool smaller than the domain is busy and a
\* submitted task waits for one
C6_Witness ==
    /\ options.threads < Len(computers)
    /\ Cardinality(InProgress) = options.threads
    /\ \E t \in Tasks : pc[t] = "queued"

\* C7: a worker touches results only while it holds the lock, at most one
\* worker holds it, and no worker holds it while it resolves, logs in or
\* lists shares.
C7_LockDiscipline ==
    /\ \A t \in Tasks : pc[t] = "cs" => (t \in holds /\ lock)
    /\ Cardinality(holds) <= 1
    /\ \A t \in Tasks : pc[t] \in {"resolve", "login", "list"} => t \notin holds

\* C7 witness: one worker is in the critical section while another is busy
\* with the network
C7_Witness ==
    \E t, u \in Tasks :
        /\ pc[t] = "cs" /\ t \in holds
        /\ pc[u] \in {"resolve", "login", "list"}

C9_ServerOrder ==
    \A i \in DOMAIN results :
        \E t \in Tasks :
            /\ computers[t] = results[i].key
            /\ \A j \in DOMAIN results[i].value :
                  results[i].value[j].computer.fqdn = results[i].key
            /\ RecordedNames(results[i].key) = ServedNames(t, Recorded(t))
            /\ how[t] = "ok" => RecordedNames(results[i].key) = ServedNames(t, Len(smb_shares[t]))

\* C9 witness: both hosts listed in full, the one submitted last first in
\* results
C9_Witness ==
    /\ main_pc = "exit"
    /\ Len(results) = 2
    /\ results[1].key = HostName(2)
    /\ Len(results[1].value) = 2
    /\ Len(results[2].value) = 2
    /\ \A t \in Tasks : how[t] = "ok"

\* s is a prefix of r
IsPrefix(s, r) == Len(s) <= Len(r) /\ SubSeq(r, 1, Len(s)) = s

\* C10: no step removes or changes a record of results, the exports start
\* only when every task has finished, and results does not change from then
\* on.
C10_GrowsThenReadOnly ==
    [][ /\ \A i \in DOMAIN results :
              /\ i \in DOMAIN results'
              /\ results'[i].key = results[i].key
              /\ IsPrefix(results[i].value, results'[i].value)
        /\ main_pc' \in AfterProbing => \A t \in Tasks : pc'[t] = "done"
        /\ main_pc \in AfterProbing => results' = results ]_vars

\* C10 witness: the first export has been written from a non-empty results
C10_Witness ==
    /\ main_pc = "xlsx"
    /\ files.json.written
    /\ Len(results) = 2

\* C11: the SQLite export leaves the rows the table held before the run in
\* place and adds after them exactly one row (fqdn, ip, share name, comment,
\* raw type value) per record of results, in iteration order; on a fresh
\* file the rows are those of the records and nothing else, so that two
\* exports of the same results to fresh files hold the same rows.
C11_SqliteOneRowPerRecord ==
    files.sqlite.written =>
        LET data == Flatten(results, 1)
            rows == files.sqlite.rows
            m == Len(files.sqlite.before)
        IN  /\ Len(data) = TotalRecorded(Len(computers))
            /\ Len(rows) = m + Len(data)
            /\ SubSeq(rows, 1, m) = files.sqlite.before
            /\ \A k \in 1..Len(data) :
                  rows[m + k] = << data[k].computer.fqdn, data[k].computer.ip,
                                   data[k].share.name, data[k].share.comment,
                                   data[k].share.type.stype_value >>

\* C11 witness: a table that held one row holds it still, followed by the
\* rows of three records of two hosts
C11_Witness ==
    /\ main_pc = "exit"
    /\ files.sqlite.written
    /\ files.sqlite.before = <<OldRow>>
    /\ Len(results) = 2
    /\ Len(files.sqlite.rows) = 4
    /\ files.sqlite.rows[1] = OldRow

\* C12: the XLSX export writes the header in row 0 and one data row per
\* record of results in rows 1..n, in iteration order, and the autofilter
\* spans rows 0..n and columns 0..4, no row beyond the last written one,
\* for every n >= 0.
C12_XlsxAutofilterRange ==
    files.xlsx.written =>
        LET data == Flatten(results, 1)
            n == Len(data)
            rows == files.xlsx.rows
        IN  /\ DOMAIN rows = 0..n
            /\ rows[0] = header_fields
            /\ \A k \in 1..n :
                  rows[k] = << data[k].computer.fqdn, data[k].computer.ip,
                               data[k].share.name, data[k].share.comment,
                               data[k].share.hidden >>
            /\ files.xlsx.autofilter = <<0, 0, n, 4>>

\* the per-share discovery lines among what was printed
DiscoveryLines ==
    {l \in stdout : l.text \in {"Found", "Skipping common share"}}

\* C13: with --ignore-hidden-shares no "Found" or "Skipping common share"
\* line is printed for a share whose name ends in "$", whatever the colors
\* flag, the debug flag and the share comment are; with --quiet no per-share
\* discovery line is printed at all.
C13_HiddenSharesNotPrinted ==
    /\ options.ignore_hidden_shares =>
          \A l \in DiscoveryLines : ~EndsWith(l.name, "$")
    /\ options.quiet => DiscoveryLines = {}

\* C14: in every way to authenticate, a host whose name resolves and whose
\* server accepts the login and returns its share list gets one record per
\* returned share in results; with -k/--kerberos, init_smb_session reaches
\* the Kerberos login call: no probe ends in init_smb_session other than by
\* the server refusing the login.
C14_LoginReachesServer ==
    \A t \in Tasks :
        /\ exc[t] # "AttributeError"
        /\ (pc[t] = "done" /\ how[t] = "ok" /\ Len(resp[t]) > 0) =>
              /\ computers[t] \in Keys(results)
              /\ Len(results[Get(results, computers[t])].value) = Len(resp[t])

\* C15: the lock is released on every path out of the critical section: a
\* worker that has finished, normally or through the except branch, does
\* not hold the lock, so whenever the lock is locked the worker that holds
\* it is still running and will release it, and no worker waits forever.
C15_LockReleased ==
    /\ \A t \in Tasks : pc[t] = "done" => t \notin holds
    /\ lock => \E u \in holds : pc[u] = "cs"

=============================================================================
